---- MODULE Spec2Model ----
(***************************************************************************)
(* A model of delete-rs (src/main.rs): the `cleanup` and `seed` commands   *)
(* of a single-threaded command-line tool that talks to a Redis store over *)
(* one connection.  Strings are sequences of one-character strings, so     *)
(* that split(":"), parse::<usize>(), sort() and the ULID text form are    *)
(* computed rather than assumed.                                           *)
(***************************************************************************)
EXTENDS Integers, Sequences, FiniteSets, TLC

VARIABLES
    store,   \* the Redis keyspace: key -> [val, ttl]; ttl = -1 is "no expiry"
    pc,      \* position of the current process: main/keys/ttl/del/seed/exit_ok/exit_err
    args,    \* the parsed command line of the current process (CliCommands)
    keys,    \* cleanup: the Vec<String> retrieved and sorted
    idx,     \* cleanup: the loop's idx (0-based); seed: i - 1
    out,     \* the classification notices the current process printed
    calls,   \* the store calls the current process issued, in order
    prev,    \* << >>, or the record of the previous process (one element)
    store0,  \* the keyspace as it was when the current process started
    ms       \* the wall clock in milliseconds, as Ulid::new() reads it

vars == <<store, pc, args, keys, idx, out, calls, prev, store0, ms>>

----------------------------------------------------------------------------
(* Bounds of the model.                                                    *)

MaxKeys == 2        \* keys in the store when the first process starts
MaxTtl == 1         \* largest remaining TTL (seconds) of an initial key
MaxNumKeys == 2     \* largest --num-keys
MaxSeedTtl == 1     \* largest --ttl of seed
MaxMs == 2          \* the clock advances at most this far during seed
MaxRand == 1        \* the random payload of a ULID is drawn from 0..MaxRand
Scale == 2          \* a draw in [0,1) is one of 0/Scale .. (Scale-1)/Scale

----------------------------------------------------------------------------
(* Strings.                                                                *)

\* Byte value of a character (ASCII), for the characters of the key universe.
Code(c) ==
    CASE c = "*" -> 42 [] c = "+" -> 43 [] c = "0" -> 48 [] c = "1" -> 49
      [] c = "2" -> 50 [] c = "3" -> 51 [] c = "4" -> 52 [] c = "5" -> 53
      [] c = "6" -> 54 [] c = "7" -> 55 [] c = "8" -> 56 [] c = "9" -> 57
      [] c = ":" -> 58 [] c = "a" -> 97 [] c = "b" -> 98 [] c = "l" -> 108
      [] c = "p" -> 112 [] c = "u" -> 117 [] c = "x" -> 120

Digits == {"0", "1", "2", "3", "4", "5", "6", "7", "8", "9"}

\* Ord for String: bytewise lexicographic, a proper prefix is smaller.
RECURSIVE LexLess(_, _)
LexLess(a, b) ==
    IF b = << >> THEN FALSE
    ELSE IF a = << >> THEN TRUE
    ELSE IF Code(Head(a)) # Code(Head(b)) THEN Code(Head(a)) < Code(Head(b))
    ELSE LexLess(Tail(a), Tail(b))

\* Vec::sort on the retrieved keys (insertion into an ascending sequence).
RECURSIVE Insert(_, _)
Insert(k, s) ==
    IF s = << >> THEN <<k>>
    ELSE IF LexLess(k, Head(s)) THEN <<k>> \o s
    ELSE <<Head(s)>> \o Insert(k, Tail(s))

\* The retrieved keys left in the order the store listed them.
SortKeysUnsorted(s) == s

RECURSIVE SortKeys(_)
SortKeys(s) == IF s = << >> THEN << >> ELSE Insert(Head(s), SortKeys(Tail(s)))

\* key.split(":"): the segments between colons; never empty.
RECURSIVE Split(_)
Split(s) ==
    IF s = << >> THEN << << >> >>
    ELSE IF Head(s) = ":" THEN << << >> >> \o Split(Tail(s))
    ELSE LET r == Split(Tail(s)) IN << <<Head(s)>> \o Head(r) >> \o Tail(r)

\* Iterator::last on what is left of an iterator: << >> is None, <<x>> is Some(x).
IterLast(rest) == IF rest = << >> THEN << >> ELSE <<rest[Len(rest)]>>

RECURSIVE StripZeros(_)
StripZeros(d) == IF d # << >> /\ Head(d) = "0" THEN StripZeros(Tail(d)) ELSE d

UsizeMax == <<"1","8","4","4","6","7","4","4","0","7","3","7","0","9","5","5","1","6","1","5">>

\* num.parse::<usize>().is_ok(): an optional "+", then one or more decimal
\* digits whose value fits in 64 bits.
ParseUsizeOk(s) ==
    LET d == IF s # << >> /\ Head(s) = "+" THEN Tail(s) ELSE s
        z == StripZeros(d)
    IN  /\ d # << >>
        /\ \A j \in 1..Len(d) : d[j] \in Digits
        /\ \/ Len(z) < Len(UsizeMax)
           \/ Len(z) = Len(UsizeMax) /\ ~LexLess(UsizeMax, z)

Bull == <<"b", "u", "l", "l">>

\* The match guard of cleanup: (parts_iter.next(), parts_iter.last()) is
\* evaluated left to right, so last() sees only the segments after the first.
IsManaged(key) ==
    LET parts == Split(key)
        first == <<Head(parts)>>
        last  == IterLast(Tail(parts))
    IN  /\ first # << >>
        /\ last # << >>
        /\ first[1] = Bull
        /\ ~ParseUsizeOk(last[1])

\* A comparison that leaves out ttl = max_ttl.
ShouldDeleteStrict(ttl, max_ttl) == ttl < max_ttl

\* let should_delete = ttl <= max_ttl;
ShouldDelete(ttl, max_ttl) == ttl <= max_ttl

\* A delete branch that does not look at commit.
DoDeleteIgnoringCommit(commit, should_delete) == should_delete

\* A delete branch that is taken whenever commit is set or the key is stale.
DoDeleteEither(commit, should_delete) == commit \/ should_delete

\* A delete branch that is never taken.
DoDeleteNever(commit, should_delete) == FALSE

\* if commit && should_delete
DoDelete(commit, should_delete) == commit /\ should_delete

\* An Err that is dropped: the process ends as if nothing had failed.
ErrExitSwallowed == "exit_ok"

\* The `?` on a store call that returned Err: cleanup or seed returns it, main
\* returns it, and the process exits with a failure status.
ErrExit == "exit_err"

----------------------------------------------------------------------------
(* The store, as the calls of the program see it.                          *)

\* The keys a process may find in the store.
KeyUniverse ==
    { <<"a">>,
      <<"b", ":", "x">>,
      Bull,
      Bull \o <<":", "7">>,
      Bull \o <<":", "x">> }

Patterns == { <<"*">>, Bull \o <<"*">> }

\* KEYS pattern: glob matching, of which the model has literals and "*".
RECURSIVE GlobMatch(_, _)
GlobMatch(p, s) ==
    IF p = << >> THEN s = << >>
    ELSE IF Head(p) = "*"
         THEN GlobMatch(Tail(p), s) \/ (s # << >> /\ GlobMatch(p, Tail(s)))
         ELSE s # << >> /\ Head(s) = Head(p) /\ GlobMatch(Tail(p), Tail(s))

StoreKeys(st, pattern) == {k \in DOMAIN st : GlobMatch(pattern, k)}

\* A TTL reply that does not tell a missing key from one without expiry.
StoreTtlGoneAsNoExpiry(st, k) == IF k \in DOMAIN st THEN st[k].ttl ELSE -1

\* TTL key: seconds remaining, -1 without expiry, -2 when the key is gone.
StoreTtl(st, k) == IF k \in DOMAIN st THEN st[k].ttl ELSE -2

\* DEL key
StoreDel(st, k) == [x \in DOMAIN st \ {k} |-> st[x]]

\* SET key true / SETEX key secs true
StoreSet(st, k, v, t) ==
    [x \in DOMAIN st \cup {k} |-> IF x = k THEN [val |-> v, ttl |-> t] ELSE st[x]]

\* Time passes: every expiry counts down by a second, and a key with less
\* than a second left (TTL 0) is removed.
Expire(st) ==
    LET live == {k \in DOMAIN st : st[k].ttl # 0}
    IN  [k \in live |->
            IF st[k].ttl > 0 THEN [st[k] EXCEPT !.ttl = @ - 1] ELSE st[k]]

\* The orders in which KEYS may list a set of keys: any.
RECURSIVE Perms(_)
Perms(S) ==
    IF S = {} THEN { << >> }
    ELSE UNION { { <<k>> \o p : p \in Perms(S \ {k}) } : k \in S }

----------------------------------------------------------------------------
(* Command lines.                                                          *)

MaxTtlArgs == {-1, 0}

CleanupArgs ==
    [cmd : {"cleanup"}, keys : Patterns, max_ttl : MaxTtlArgs, commit : BOOLEAN]

Stores(U, n, T) ==
    UNION { [S -> [val : {TRUE}, ttl : T]] :
              S \in {X \in SUBSET U : Cardinality(X) <= n} }

Notice(kind, key, ttl, i, n) ==
    [kind |-> kind, key |-> key, ttl |-> ttl, i |-> i, n |-> n]

Call(op, key, ok) == [op |-> op, key |-> key, ok |-> ok]

\* fn main returns Ok(()) or the first Err: the process exit status.
ExitCode(p) == IF p = "exit_err" THEN 1 ELSE 0

InitLocals ==
    /\ pc = "main"
    /\ keys = << >>
    /\ idx = 0
    /\ out = << >>
    /\ calls = << >>
    /\ prev = << >>
    /\ store0 = store
    /\ ms = 0

KeyUniverseTwice == { <<"a">>, Bull \o <<":", "7">>, Bull \o <<":", "x">> }

InitTwice ==
    /\ store \in Stores(KeyUniverseTwice, MaxKeys, {-1} \cup (0..MaxTtl))
    /\ args \in CleanupArgs
    /\ InitLocals

InitCleanup ==
    /\ store \in Stores(KeyUniverse, MaxKeys, {-1} \cup (0..MaxTtl))
    /\ args \in CleanupArgs
    /\ InitLocals

\* main: parse, connect (which may fail), dispatch on the subcommand.  seed
\* with num_keys = 0 runs its loop zero times and returns Ok(()).
Main ==
    /\ pc = "main"
    /\ \/ pc' = (IF args.cmd = "cleanup" THEN "keys"
                  ELSE IF args.num_keys = 0 THEN "exit_ok" ELSE "seed")
       \/ pc' = ErrExit
    /\ UNCHANGED <<store, args, keys, idx, out, calls, prev, store0, ms>>

\* conn.keys(keys)?, keys.sort()
CleanupKeys ==
    /\ pc = "keys"
    /\ \/ /\ \E got \in Perms(StoreKeys(store, args.keys)) :
                keys' = SortKeys(got)
          /\ calls' = Append(calls, Call("KEYS", args.keys, TRUE))
          /\ pc' = (IF StoreKeys(store, args.keys) = {} THEN "exit_ok" ELSE "ttl")
       \/ /\ calls' = Append(calls, Call("KEYS", args.keys, FALSE))
          /\ pc' = ErrExit
          /\ keys' = keys
    /\ UNCHANGED <<store, args, idx, out, prev, store0, ms>>

\* The end of one loop iteration: the next key, or Ok(()).
Advance ==
    /\ idx' = idx + 1
    /\ pc' = (IF idx + 1 = Len(keys) THEN "exit_ok" ELSE "ttl")

\* conn.ttl(key)?, the managed match, should_delete and its notice.
CleanupTtl ==
    /\ pc = "ttl"
    /\ LET key == keys[idx + 1]
           t   == StoreTtl(store, key)
           i   == idx + 1
           n   == Len(keys)
       IN  \/ /\ calls' = Append(calls, Call("TTL", key, FALSE))
              /\ pc' = ErrExit
              /\ UNCHANGED <<idx, out>>
           \/ /\ calls' = Append(calls, Call("TTL", key, TRUE))
              /\ IF IsManaged(key)
                 THEN /\ out' = Append(out, Notice("MANAGED SKIPPING", key, t, i, n))
                      /\ Advance
                 ELSE /\ out' = Append(out,
                            Notice(IF ShouldDelete(t, args.max_ttl)
                                   THEN "DELETE" ELSE "SKIPPING", key, t, i, n))
                      /\ IF DoDelete(args.commit, ShouldDelete(t, args.max_ttl))
                         THEN pc' = "del" /\ idx' = idx
                         ELSE Advance
    /\ UNCHANGED <<store, args, keys, prev, store0, ms>>

\* conn.del(key)?  A call that fails may or may not have reached the store.
CleanupDel ==
    /\ pc = "del"
    /\ LET key == keys[idx + 1]
       IN  \/ /\ calls' = Append(calls, Call("DEL", key, TRUE))
              /\ store' = StoreDel(store, key)
              /\ out' = Append(out, [kind |-> "DELETED"])
              /\ Advance
           \/ /\ calls' = Append(calls, Call("DEL", key, FALSE))
              /\ store' \in {store, StoreDel(store, key)}
              /\ pc' = ErrExit
              /\ UNCHANGED <<idx, out>>
    /\ UNCHANGED <<args, keys, prev, store0, ms>>

\* Time passes while a cleanup process runs or between two processes.
Tick ==
    /\ Expire(store) # store
    /\ store' = Expire(store)
    /\ UNCHANGED <<pc, args, keys, idx, out, calls, prev, store0, ms>>

RunRecord == [args |-> args, out |-> out, calls |-> calls, pc |-> pc]

\* The operator runs the tool again once the process has exited.
Restart ==
    /\ pc \in {"exit_ok", "exit_err"}
    /\ prev = << >>
    /\ args' \in CleanupArgs
    /\ prev' = <<RunRecord>>
    /\ pc' = "main"
    /\ keys' = << >>
    /\ idx' = 0
    /\ out' = << >>
    /\ calls' = << >>
    /\ store0' = store
    /\ UNCHANGED <<store, ms>>

Next == Main \/ CleanupKeys \/ CleanupTtl \/ CleanupDel \/ Tick

Spec == InitCleanup /\ [][Next]_vars

NextTwice == Next \/ Restart

SpecTwice == InitTwice /\ [][NextTwice]_vars

----------------------------------------------------------------------------
(* seed                                                                    *)

Crockford ==
    <<"0", "1", "2", "3", "4", "5", "6", "7", "8", "9", "A", "B", "C", "D", "E",
      "F", "G", "H", "J", "K", "M", "N", "P", "Q", "R", "S", "T", "V", "W", "X",
      "Y", "Z">>

\* The text form of a ULID: 10 base-32 characters of timestamp, then 16 of
\* random payload, most significant first.
TimeChars == 10
RandChars == 16

RECURSIVE Base32(_, _)
Base32(n, w) ==
    IF w = 0 THEN << >>
    ELSE Base32(n \div Len(Crockford), w - 1) \o <<Crockford[(n % Len(Crockford)) + 1]>>

UlidString(u) == Base32(u.ts, TimeChars) \o Base32(u.rnd, RandChars)

\* Ulid::new(): the clock's millisecond and a fresh random payload.
UlidNew(now, rnd) == [ts |-> now, rnd |-> rnd]

\* A key format without the colon.
SeedKeyNoColon(prefix, u) == prefix \o UlidString(u)

\* format!("{prefix}:{}", Ulid::new())
SeedKey(prefix, u) == prefix \o <<":">> \o UlidString(u)

\* A draw equal to the threshold also gets an expiry.
GetsExpiryInclusive(level, threshold) == level <= threshold

\* level < threshold, both in units of 1/Scale.
GetsExpiry(level, threshold) == level < threshold

Prefixes == { << >>, <<"p">> }

SeedArgs ==
    [cmd : {"seed"}, prefix : Prefixes, num_keys : 0..MaxNumKeys,
     threshold : {0, 1, Scale}, ttl : 0..MaxSeedTtl]

KeyUniverseSeed == { <<"a">> }

\* The keys already in the store have no expiry, so that every expiry seen is
\* one that seed set.
InitSeed ==
    /\ store \in Stores(KeyUniverseSeed, MaxKeys, {-1})
    /\ args \in SeedArgs
    /\ InitLocals

Write(op, key, ex, level, u, ok) ==
    [op |-> op, key |-> key, val |-> TRUE, ex |-> ex, level |-> level,
     ulid |-> u, ok |-> ok]

\* The end of one iteration of for i in 1..=num_keys.
SeedAdvance ==
    /\ idx' = idx + 1
    /\ pc' = (IF idx + 1 = args.num_keys THEN "exit_ok" ELSE "seed")

\* One iteration of seed's loop: the key, the draw, set_ex or set.  The store
\* rejects SETEX with 0 seconds.  The progress line printed is not kept.
SeedWrite ==
    /\ pc = "seed"
    /\ \E rnd \in 0..MaxRand, level \in 0..(Scale - 1) :
        \E u \in {UlidNew(ms, rnd)} :
        \E key \in {SeedKey(args.prefix, u)} :
            IF GetsExpiry(level, args.threshold)
            THEN \/ /\ args.ttl > 0
                    /\ calls' = Append(calls, Write("SETEX", key, args.ttl, level, u, TRUE))
                    /\ store' = StoreSet(store, key, TRUE, args.ttl)
                    /\ SeedAdvance
                 \/ /\ calls' = Append(calls, Write("SETEX", key, args.ttl, level, u, FALSE))
                    /\ store' = store
                    /\ pc' = ErrExit
                    /\ idx' = idx
            ELSE \/ /\ calls' = Append(calls, Write("SET", key, -1, level, u, TRUE))
                    /\ store' = StoreSet(store, key, TRUE, -1)
                    /\ SeedAdvance
                 \/ /\ calls' = Append(calls, Write("SET", key, -1, level, u, FALSE))
                    /\ store' = store
                    /\ pc' = ErrExit
                    /\ idx' = idx
    /\ UNCHANGED <<args, keys, out, prev, store0, ms>>

\* While seed runs the clock moves on by a millisecond or more; it may cross
\* a second.
SeedTick ==
    /\ pc \in {"main", "seed"}
    /\ ms < MaxMs
    /\ ms' = ms + 1
    /\ \/ store' = store
       \/ Expire(store) # store /\ store' = Expire(store)
    /\ UNCHANGED <<pc, args, keys, idx, out, calls, prev, store0>>

NextSeed == Main \/ SeedWrite \/ SeedTick

SpecSeed == InitSeed /\ [][NextSeed]_vars

----------------------------------------------------------------------------
(* Properties of cleanup, checked under Spec (one cleanup process).        *)

IsClass(x) == x.kind # "DELETED"

\* The classification notices of a run, one per key handled, in order.
ClassNotices(o) == SelectSeq(o, IsClass)

IsTtlCall(c) == c.op = "TTL"

TtlCalls(cs) == SelectSeq(cs, IsTtlCall)

Range(f) == {f[j] : j \in DOMAIN f}

FirstSegment(k) == Head(Split(k))

LastSegment(k) == Split(k)[Len(Split(k))]

\* A managed key as the specification words it: first segment `bull`, last
\* segment not a non-negative integer.
ManagedKey(k) == FirstSegment(k) = Bull /\ ~ParseUsizeOk(LastSegment(k))

RECURSIVE Aged(_, _)
Aged(st, n) == IF n = 0 THEN st ELSE Aged(Expire(st), n - 1)

\* C1: no delete is issued for a key whose first colon-separated segment is
\* `bull` and whose last segment does not parse as a non-negative integer,
\* a single-segment key included.
C1_ManagedNeverDeleted ==
    \A c \in Range(calls) : c.op = "DEL" => ~ManagedKey(c.key)

C3_Classification ==
    LET N == ClassNotices(out)
        Q == TtlCalls(calls)
    IN  \A j \in 1..Len(Q) :
          (Q[j].ok /\ ~ManagedKey(Q[j].key)) =>
            /\ j <= Len(N)
            /\ N[j].key = Q[j].key
            /\ N[j].kind = (IF N[j].ttl <= args.max_ttl THEN "DELETE" ELSE "SKIPPING")
            /\ (args.commit /\ N[j].ttl <= args.max_ttl)
                 <=> \/ \E c \in Range(calls) : c.op = "DEL" /\ c.key = Q[j].key
                     \/ pc = "del" /\ keys[idx + 1] = Q[j].key

C3_Witness ==
    /\ pc = "exit_ok"
    /\ args.commit
    /\ \E x, y \in Range(out) :
          /\ x.kind = "DELETE" /\ x.ttl <= args.max_ttl
          /\ y.kind = "SKIPPING" /\ y.ttl > args.max_ttl
          /\ \E c \in Range(calls) : c.op = "DEL" /\ c.key = x.key
          /\ ~\E c \in Range(calls) : c.op = "DEL" /\ c.key = y.key

\* C5: a store call that returns an error is the last call of the process:
\* cleanup returns at it and the process exits non-zero, no call is made for
\* a later key, no call is repeated, and every key a DEL removed before it
\* stays removed.
C5_FailFast ==
    /\ \A j \in 1..Len(calls) :
          ~calls[j].ok => j = Len(calls) /\ pc = "exit_err" /\ ExitCode(pc) # 0
    /\ \A j \in 1..Len(calls) :
          calls[j].op \in {"TTL", "DEL"} =>
            \E i \in 1..(idx + 1) : i <= Len(keys) /\ keys[i] = calls[j].key
    /\ \A j, k \in 1..Len(calls) :
          (j < k /\ calls[j].op = calls[k].op) => calls[j].key # calls[k].key
    /\ \A c \in Range(calls) :
          (c.op = "DEL" /\ c.ok) => c.key \notin DOMAIN store

C5_Witness ==
    /\ pc = "exit_err"
    /\ Len(keys) = 2
    /\ Len(calls) = 4
    /\ calls[3].op = "DEL" /\ calls[3].ok /\ calls[3].key = keys[1]
    /\ calls[4].op = "TTL" /\ ~calls[4].ok /\ calls[4].key = keys[2]
    /\ keys[2] \in DOMAIN store

\* C6 as stated: with max_ttl = -1 the TTL query never yields a value below
\* -1 and only keys whose queried TTL is exactly -1 are classified DELETE.
C6_DefaultDeletesOnlyNoExpiry ==
    args.max_ttl = -1 =>
        \A x \in Range(ClassNotices(out)) :
            x.ttl >= -1 /\ (x.kind = "DELETE" => x.ttl = -1)

\* C6 as amended: with max_ttl = -1 the keys classified DELETE are those whose
\* queried TTL is -1 (no expiry) or -2 (the key expired after it was
\* enumerated); the TTL query never yields a value below -2, yields -1 only
\* for a key without expiry, and otherwise at most the key's earlier TTL.
C6_DefaultDeletesNoExpiryOrGone ==
    args.max_ttl = -1 =>
        \A x \in Range(ClassNotices(out)) :
            /\ x.ttl >= -2
            /\ x.kind \in {"DELETE", "SKIPPING"} =>
                  (x.kind = "DELETE" <=> x.ttl \in {-1, -2})
            /\ x.ttl = -1 <=> store0[x.key].ttl = -1
            /\ x.ttl <= store0[x.key].ttl
            /\ x.ttl = -2 => x.key \notin DOMAIN store

C6_Witness ==
    /\ args.max_ttl = -1
    /\ pc = "exit_ok"
    /\ \E x, y \in Range(out) :
          /\ x.kind = "DELETE" /\ x.ttl = -2
          /\ y.kind = "DELETE" /\ y.ttl = -1

\* C10: the retrieved keys are handled in ascending byte order, each once:
\* the j-th TTL query and the j-th notice are for the j-th key and report
\* position j of Len(keys), a DEL directly follows the TTL query of its key,
\* and a process that ends without error has handled every key.
C10_SortedOrder ==
    LET N == ClassNotices(out)
        Q == TtlCalls(calls)
    IN  /\ \A i \in 1..(Len(keys) - 1) : LexLess(keys[i], keys[i + 1])
        /\ Range(keys) \subseteq StoreKeys(store0, args.keys)
        /\ Len(Q) <= Len(keys)
        /\ \A j \in 1..Len(Q) : Q[j].key = keys[j]
        /\ Len(N) <= Len(Q)
        /\ \A j \in 1..Len(N) :
              N[j].key = keys[j] /\ N[j].i = j /\ N[j].n = Len(keys)
        /\ \A j \in 1..Len(calls) :
              /\ calls[j].op = "KEYS" => j = 1
              /\ calls[j].op = "DEL" =>
                    /\ calls[j - 1].op = "TTL"
                    /\ calls[j - 1].key = calls[j].key
        /\ pc = "exit_ok" =>
              /\ Len(N) = Len(keys)
              /\ idx = Len(keys)
              /\ \E n \in 0..(MaxTtl + 1) :
                    Range(keys) = StoreKeys(Aged(store0, n), args.keys)

C10_Witness ==
    /\ pc = "exit_ok"
    /\ Len(keys) = 2
    /\ Len(calls) = 4
    /\ calls[2].op = "TTL" /\ calls[3].op = "DEL" /\ calls[4].op = "TTL"
    /\ ClassNotices(out)[2].i = 2

----------------------------------------------------------------------------
(* Properties of two cleanup processes in succession, under SpecTwice.     *)

\* Both processes ran cleanup to Ok(()) with the given commit, the same
\* pattern and the same max_ttl; nothing else writes to the store.
RanTwice(commit) ==
    /\ prev # << >>
    /\ prev[1].pc = "exit_ok"
    /\ pc = "exit_ok"
    /\ prev[1].args.commit = commit
    /\ args.commit = commit
    /\ prev[1].args.keys = args.keys
    /\ prev[1].args.max_ttl = args.max_ttl

\* C4 as stated: the second of two commit=true processes issues no delete:
\* every key it handles is classified SKIPPING or MANAGED SKIPPING.
C4_SecondCommitDeletesNothing ==
    RanTwice(TRUE) =>
        /\ \A c \in Range(calls) : c.op # "DEL"
        /\ \A x \in Range(ClassNotices(out)) : x.kind \in {"SKIPPING", "MANAGED SKIPPING"}

\* C4 as amended: the second process deletes only keys whose TTL has run
\* down since the first: each key it classifies DELETE was classified
\* SKIPPING by the first process, with a strictly larger TTL.
C4_SecondCommitDeletesOnlyDecayed ==
    RanTwice(TRUE) =>
        \A x \in Range(ClassNotices(out)) :
            x.kind = "DELETE" =>
                \E y \in Range(ClassNotices(prev[1].out)) :
                    y.kind = "SKIPPING" /\ y.key = x.key /\ x.ttl < y.ttl

C4_Witness ==
    /\ RanTwice(TRUE)
    /\ \E y \in Range(ClassNotices(prev[1].out)) : y.kind = "DELETE"
    /\ \E x \in Range(ClassNotices(out)) : x.kind = "DELETE" /\ x.ttl >= 0

\* C9 as stated: two commit=false processes print the same notices: the same
\* keys, classified the same way, with the same TTLs.
C9_DryRunsAgree == RanTwice(FALSE) => out = prev[1].out

\* C9 as amended: the second process handles a sub-list of the first one's
\* keys, every key without expiry among them; a key is reported with a TTL
\* no greater than before, is managed in both or in neither, and is
\* classified the same way whenever its TTL is the same.
C9_DryRunsAgreeUpToExpiry ==
    RanTwice(FALSE) =>
        /\ \A x \in Range(ClassNotices(out)) :
              \E y \in Range(ClassNotices(prev[1].out)) :
                  /\ y.key = x.key
                  /\ x.ttl <= y.ttl
                  /\ y.ttl = -1 => x.ttl = -1
                  /\ x.kind = "MANAGED SKIPPING" <=> y.kind = "MANAGED SKIPPING"
                  /\ x.ttl = y.ttl => x.kind = y.kind
        /\ \A y \in Range(ClassNotices(prev[1].out)) :
              y.ttl = -1 => \E x \in Range(ClassNotices(out)) : x.key = y.key
        /\ \A j \in 1..(Len(ClassNotices(out)) - 1) :
              LexLess(ClassNotices(out)[j].key, ClassNotices(out)[j + 1].key)

C9_Witness ==
    /\ RanTwice(FALSE)
    /\ Len(prev[1].out) = 2
    /\ Len(out) = 2
    /\ out[1] = prev[1].out[1]
    /\ out[1].kind = "DELETE"
    /\ out[2].ttl < prev[1].out[2].ttl

----------------------------------------------------------------------------
(* Properties of seed, checked under SpecSeed (one seed process).          *)

\* The last write to key k among the calls.
LastWrite(k) ==
    calls[CHOOSE j \in 1..Len(calls) :
            /\ calls[j].key = k
            /\ \A i \in (j + 1)..Len(calls) : calls[i].key # k]

Base32Chars == Range(Crockford)

\* {prefix}:{token}, the token 26 characters of the ULID alphabet.
HasSeedForm(k, prefix) ==
    /\ Len(k) = Len(prefix) + 1 + TimeChars + RandChars
    /\ SubSeq(k, 1, Len(prefix)) = prefix
    /\ k[Len(prefix) + 1] = ":"
    /\ \A j \in (Len(prefix) + 2)..Len(k) : k[j] \in Base32Chars

\* C7 as stated: a seed process that ends without error has issued exactly
\* num_keys writes, to pairwise different keys of the form {prefix}:{token},
\* and the store holds num_keys more keys than when it started.
C7_SeedAddsNumKeys ==
    pc = "exit_ok" =>
        /\ Len(calls) = args.num_keys
        /\ \A c \in Range(calls) : HasSeedForm(c.key, args.prefix)
        /\ \A i, j \in 1..Len(calls) : i # j => calls[i].key # calls[j].key
        /\ Cardinality(DOMAIN store) = Cardinality(DOMAIN store0) + args.num_keys

\* C7 as amended: such a process has issued exactly num_keys writes, each to
\* a key of the form {prefix}:{token}; two of these keys are equal only when
\* both tokens were made in the same millisecond with the same random
\* payload; the store holds at most num_keys more keys than when it started,
\* among them every key whose last write carried no expiry.
C7_SeedWritesNumKeys ==
    pc = "exit_ok" =>
        /\ Len(calls) = args.num_keys
        /\ \A c \in Range(calls) : c.ok /\ HasSeedForm(c.key, args.prefix)
        /\ \A i, j \in 1..Len(calls) :
              calls[i].key = calls[j].key <=> calls[i].ulid = calls[j].ulid
        /\ Cardinality(DOMAIN store) <= Cardinality(DOMAIN store0) + args.num_keys
        /\ \A c \in Range(calls) :
              LastWrite(c.key).op = "SET" =>
                /\ c.key \in DOMAIN store
                /\ store[c.key] = [val |-> TRUE, ttl |-> -1]

\* Two writes to different keys, the first of which expired before the
\* process ended.
C7_Witness ==
    /\ pc = "exit_ok"
    /\ args.num_keys = 2
    /\ args.prefix = <<"p">>
    /\ calls[1].key # calls[2].key
    /\ calls[1].key \notin DOMAIN store
    /\ calls[2].key \in DOMAIN store
    /\ Cardinality(DOMAIN store) = Cardinality(DOMAIN store0) + 1

\* C8: each write of seed carries the value true, and carries an expiry, of
\* --ttl seconds, exactly when the draw is below the threshold; so with
\* threshold 0 no key gets an expiry and with threshold 1 every key does.
C8_ExpiryBelowThreshold ==
    /\ \A c \in Range(calls) :
          /\ c.val = TRUE
          /\ c.op = (IF c.level < args.threshold THEN "SETEX" ELSE "SET")
          /\ c.ex = (IF c.level < args.threshold THEN args.ttl ELSE -1)
          /\ args.threshold = 0 => c.op = "SET"
          /\ args.threshold = Scale => c.op = "SETEX"
    /\ (calls # << >> /\ calls[Len(calls)].ok) =>
          LET c == calls[Len(calls)]
          IN  IF c.op = "SET"
              THEN c.key \in DOMAIN store /\ store[c.key] = [val |-> TRUE, ttl |-> -1]
              ELSE c.key \in DOMAIN store =>
                     store[c.key].val = TRUE /\ store[c.key].ttl \in 0..args.ttl

C8_Witness ==
    /\ pc = "exit_ok"
    /\ args.threshold = 1
    /\ Len(calls) = 2
    /\ calls[1].op = "SETEX" /\ calls[1].level = 0 /\ calls[1].ex = args.ttl
    /\ calls[2].op = "SET" /\ calls[2].level = 1
    /\ calls[1].key \in DOMAIN store /\ store[calls[1].key].ttl = args.ttl

====
